---- MODULE Spec2Model ----
(***************************************************************************)
(* The observable store of src/src/lib/index.ts: createStoreApi (state,    *)
(* listeners, setState, getState, subscribe, getSnapshot) and create.      *)
(* A setState call is followed step by step: the merge (lines 14-18), then *)
(* one step per listener of listeners.forEach (line 19), then the return.  *)
(* What a listener or an initializer does is an input: it reads the state, *)
(* subscribes, unsubscribes, calls setState again, returns or throws.      *)
(***************************************************************************)
EXTENDS Integers, Sequences, FiniteSets, TLC

VARIABLES
    phase,      \* where create() is: "init" (line 33 running), "ready", "failed"
    leaked,     \* the initializer kept the set/get handles it was passed
    state,      \* `let state` (line 10): the stored object, key -> value
    stateRef,   \* identity of the stored object (a fresh one per object literal)
    nextRef,    \* next unused object identity
    listeners,  \* `listeners` (line 11): a Set, kept in insertion order
    handles,    \* per callback: the unsubscribe closures made (line 26), and
                \* how many of them have been called
    calls,      \* the setState calls in progress, outermost first
    nOps,       \* operations the listeners have performed so far
    exc,        \* the exception in flight, or the one the outermost caller got
    done,       \* what the setState call that ended last did
    tally,      \* the count written last and the increments/decrements since
    unsubbed,   \* per callback: was an unsubscribe function of it called
    unsubLog,   \* the last unsubscribe call: listener set before and after
    ret,        \* what the last step returned, if it was create or a read
    inst,       \* per hook usage instance: selector, status, rendered snapshot
    nextSnap,   \* next unused identity of an object a selector creates
    hlog        \* what the host framework's last step did

vars == <<phase, leaked, state, stateRef, nextRef, listeners, handles, calls, nOps,
          exc, done, tally, unsubbed, unsubLog, ret, inst, nextSnap, hlog>>

\* What the hook of create (lines 46-52) adds to the store
hookVars == <<inst, nextSnap, hlog>>

----------------------------------------------------------------------------
\* Bounds of the model

MaxCalls == 2       \* setState calls that commit, once the store is built
MaxInitSets == 1    \* setState calls the initializer makes
MaxOps == 1         \* operations the listeners perform in one run
MaxHandles == 2     \* subscribe calls in one run
MaxSnaps == 3       \* objects the selectors create in one run

\* The callbacks that are subscribed
Callbacks == {1, 2}

----------------------------------------------------------------------------
\* Values of the application's state

Num(n) == [t |-> "num", v |-> n]
Obj(i) == [t |-> "obj", v |-> i]          \* a reference to a nested object
Undefined == [t |-> "undefined", v |-> 0]
Fn(i) == [t |-> "fn", v |-> i]            \* a function of the state: an action
Derived(n) == [t |-> "derived", v |-> n]  \* an object a selector has created
TypeError == [t |-> "TypeError", v |-> 0] \* what calling `undefined` throws
NaN == [t |-> "nan", v |-> 0]

\* The nested objects a field may refer to: 1 is {x:1, y:2}, 2 is {x:1}.
Heap(i) == IF i = 1 THEN [x |-> 1, y |-> 2] ELSE [x |-> 1]

\* `{} as T`, the placeholder state of line 10
EmptyObj == [k \in {} |-> Undefined]

\* s.k : reading a property that is absent yields undefined
Get(s, k) == IF k \in DOMAIN s THEN s[k] ELSE Undefined

\* x + n on a number; undefined + n and NaN + n are NaN
Add(x, n) == IF x.t = "num" THEN Num(x.v + n) ELSE NaN

\* A spread that lets the old state win: { ...p, ...s }
SpreadReversed(s, p) ==
    [k \in DOMAIN s \cup DOMAIN p |-> IF k \in DOMAIN s THEN s[k] ELSE p[k]]

\* A spread that forgets the old state: { ...p }
SpreadReplace(s, p) == p

\* { ...s, ...p } : the own keys of s, then those of p over them
Spread(s, p) ==
    [k \in DOMAIN s \cup DOMAIN p |-> IF k \in DOMAIN p THEN p[k] ELSE s[k]]

\* An assignment that keeps the stored object when the merge changes no field
LiteralReused(s, r, t, n) == IF t = s THEN r ELSE n

\* The identity of the object an object literal evaluates to (lines 15, 17),
\* where s (identity r) was stored, t is the merge and n is unused so far:
\* always a new one
Literal(s, r, t, n) == n

\* An initializer whose return value is merged into what `state` holds
AssignedMerged(s, v) == Spread(s, v)

\* `state = initFunction(setState, getState)` (line 33): what `state` holds
\* once the initializer has returned v, where it held s
Assigned(s, v) == v

\* A forEach over an array whose entries move up when one is removed
IdxKept(ls, idx, c) == idx

----------------------------------------------------------------------------
\* The arguments of setState: a partial object, or an updater function

ObjUpdate(p) == [kind |-> "obj", fn |-> "none", partial |-> p]
FnUpdate(f) == [kind |-> "fn", fn |-> f, partial |-> EmptyObj]

Partials ==
    { EmptyObj,
      [k \in {"a"} |-> Obj(2)],
      [k \in {"b"} |-> Num(7)],
      [k \in {"count"} |-> Num(0)] }     \* reset: set({ count: 0 })

\* increment, decrement (README's useCountStore) and an updater that throws
Updaters == {"inc", "dec", "boom"}

Updates == {ObjUpdate(p) : p \in Partials} \cup {FnUpdate(f) : f \in Updaters}

\* What a listener passes to setState when it calls it while it is notified:
\* an updater, a partial object, an updater that throws
ListenerUpdates ==
    {FnUpdate("inc"), ObjUpdate([k \in {"a"} |-> Obj(2)]), FnUpdate("boom")}

\* The states an initializer returns
InitStates ==
    { [k \in {"count", "a", "b"} |->
          IF k = "count" THEN Num(0) ELSE IF k = "a" THEN Num(1) ELSE Num(2)],
      [k \in {"count", "a"} |-> IF k = "count" THEN Num(0) ELSE Obj(1)] }

\* newState(state): increment is s => ({count: s.count + 1}), decrement is
\* s => ({count: s.count - 1}); an updater that fails yields nothing
Apply(f, s) ==
    IF f = "inc" THEN [k \in {"count"} |-> Add(Get(s, "count"), 1)]
    ELSE IF f = "dec" THEN [k \in {"count"} |-> Add(Get(s, "count"), -1)]
    ELSE EmptyObj

\* The updater's exception is caught inside setState and dropped
ThrowsSwallowed(u) == FALSE

\* An updater that throws while it is evaluated: the exception leaves the
\* object literal of line 15 before `state` is assigned
Throws(u) == u.kind = "fn" /\ u.fn = "boom"

\* typeof newState === "function" is skipped: a function is spread as an
\* object, and has no own enumerable property
PartialOfNoCall(u, s) == u.partial

\* lines 14-18: the partial value that is merged
PartialOf(u, s) == IF u.kind = "fn" THEN Apply(u.fn, s) ELSE u.partial

----------------------------------------------------------------------------
\* The listener Set (line 11), in insertion order

Range(ls) == {ls[i] : i \in 1..Len(ls)}

\* An array in place of the Set: push, whether or not it is there already
SetAddPush(ls, c) == Append(ls, c)

\* listeners.add(callback): a callback already in the Set is not added again
SetAdd(ls, c) == IF c \in Range(ls) THEN ls ELSE Append(ls, c)

\* An unsubscribe function that removes nothing
SetDeleteNothing(ls, c) == ls

\* listeners.delete(callback)
SetDelete(ls, c) == SelectSeq(ls, LAMBDA x : x # c)

\* The place of a forEach that had passed idx entries of ls, once c is deleted:
\* a deleted entry that was passed no longer counts, the others keep their turn
IdxAfterDelete(ls, idx, c) == Len(SetDelete(SubSeq(ls, 1, idx), c))

\* A getState that still returns the placeholder of line 10
GetStateStale(s) == EmptyObj

\* getState (line 22)
GetState(s) == s

Selectors == {"a", "b", "count"}

\* Selectors: s => s.a, s => s.b, s => s.count
Select(sel, s) == Get(s, sel)

\* getSnapshot (line 31): selector(getState())
GetSnapshot(sel, s) == Select(sel, GetState(s))

----------------------------------------------------------------------------
\* A setState call in progress

NoCounts == [c \in Callbacks |-> 0]

\* A setState that commits but, called by a listener, leaves the notification
\* to the pass that is under way
FrameGuarded(u, s, r, t, q, ls) ==
    [upd |-> u, pre |-> s, preRef |-> r, post |-> t, postRef |-> q,
     latest |-> t, reg |-> Range(ls), gone |-> {}, nested |-> FALSE,
     parts |-> <<PartialOf(u, s)>>, since |-> {},
     idx |-> IF calls # <<>> THEN Len(ls) ELSE 0,
     cnt |-> NoCounts, cur |-> 0, inv |-> "no"]

\* The call setState(u) made on state s (identity r), committing state t
\* (identity q) with the listener Set ls
Frame(u, s, r, t, q, ls) ==
    [upd |-> u, pre |-> s, preRef |-> r, post |-> t, postRef |-> q,
     latest |-> t,        \* the state committed last, by this call or a later one
     reg |-> Range(ls),   \* the listeners registered when the call was made
     gone |-> {},         \* the listeners unsubscribed during the pass
     nested |-> FALSE,    \* a listener of this pass called setState
     parts |-> <<PartialOf(u, s)>>,  \* what was merged since the call began
     since |-> {},        \* the listeners invoked since the last commit
     idx |-> 0,           \* entries of the Set that forEach has passed
     cnt |-> NoCounts,    \* invocations of each listener by this call
     cur |-> 0,           \* the listener that is running, 0 for none
     inv |-> "no"]        \* unsubbed[cur] when cur was invoked

\* How a call ended
Ended(f, how, e, s) ==
    [outcome |-> how, err |-> e, committed |-> TRUE, upd |-> f.upd,
     pre |-> f.pre, preRef |-> f.preRef, post |-> f.post, postRef |-> f.postRef,
     latest |-> f.latest, reg |-> f.reg, gone |-> f.gone, nested |-> f.nested,
     parts |-> f.parts, since |-> f.since,
     cnt |-> f.cnt, regEnd |-> Range(listeners), atEnd |-> GetState(s)]

\* A call whose updater threw: nothing was assigned, nobody was notified
Refused(u, s, r) ==
    [outcome |-> "updaterThrew", err |-> "updater", committed |-> FALSE, upd |-> u,
     pre |-> s, preRef |-> r, post |-> s, postRef |-> r,
     latest |-> s, reg |-> Range(listeners), gone |-> {}, nested |-> FALSE,
     parts |-> <<>>, since |-> {},
     cnt |-> NoCounts, regEnd |-> Range(listeners), atEnd |-> GetState(s)]

NoCall ==
    [outcome |-> "none", err |-> "none", committed |-> FALSE, upd |-> ObjUpdate(EmptyObj),
     pre |-> EmptyObj, preRef |-> 0, post |-> EmptyObj, postRef |-> 0,
     latest |-> EmptyObj, reg |-> {}, gone |-> {}, nested |-> FALSE,
     parts |-> <<>>, since |-> {},
     cnt |-> NoCounts, regEnd |-> {}, atEnd |-> EmptyObj]

\* The last step was neither create returning nor a read
NoRet == [op |-> "none", sel |-> "none", val |-> EmptyObj, ref |-> 0, held |-> EmptyObj]

\* A place where a component calls the hook, not rendered yet
NoInst ==
    [sel |-> "none", status |-> "UNSUBSCRIBED", life |-> "new",
     shown |-> Undefined, shownAt |-> 0, dirty |-> FALSE]

\* The host framework's last step was not one the claims look at
NoHook ==
    [op |-> "none", i |-> 0, pre |-> EmptyObj, post |-> EmptyObj, notified |-> <<>>,
     sched |-> {}, at |-> 0, val |-> Undefined, prevAt |-> 0, prevVal |-> Undefined]

\* No unsubscribe function was called in the last step
NoUnsub == [nth |-> 0, cb |-> 0, before |-> <<>>, after |-> <<>>]

Top == calls[Len(calls)]

Idle == calls = <<>>

\* A listener is running and may perform one more operation
InListener ==
    /\ calls # <<>>
    /\ exc = "none"
    /\ Top.cur # 0
    /\ nOps < MaxOps

\* The identity of the object the initializer returns: one that no object
\* made during construction has
FirstRef == MaxInitSets + 1

NoTally == [base |-> Undefined, incs |-> 0, decs |-> 0]

\* The count a direct write leaves, and the increments and decrements since
TallyAfter(u) ==
    IF u.kind = "fn" THEN
        IF u.fn = "inc" THEN [tally EXCEPT !.incs = @ + 1]
        ELSE IF u.fn = "dec" THEN [tally EXCEPT !.decs = @ + 1]
        ELSE tally
    ELSE IF "count" \in DOMAIN u.partial
        THEN [base |-> u.partial["count"], incs |-> 0, decs |-> 0]
        ELSE tally

----------------------------------------------------------------------------
\* Construction: createStoreApi, lines 10-11

Init ==
    /\ phase = "init"
    /\ leaked = FALSE
    /\ state = EmptyObj
    /\ stateRef = 0
    /\ nextRef = 1
    /\ listeners = <<>>
    /\ handles = [c \in Callbacks |-> [made |-> 0, used |-> 0]]
    /\ calls = <<>>
    /\ nOps = 0
    /\ exc = "none"
    /\ done = NoCall
    /\ tally = NoTally
    /\ unsubbed = [c \in Callbacks |-> "no"]
    /\ unsubLog = NoUnsub
    /\ ret = NoRet
    /\ inst = [i \in Callbacks |-> NoInst]
    /\ nextSnap = 1
    /\ hlog = NoHook

\* setState, lines 13-18, called by a listener (k = 1) or not (k = 0): the updater
\* is evaluated on the current state, the merge is assigned, and the
\* notification of line 19 is left to do; an updater that throws assigns
\* nothing and the exception goes to the caller
Begin(u, k) ==
    /\ nOps' = nOps + k
    /\ nextRef <= (IF phase = "init" THEN MaxInitSets ELSE FirstRef + MaxCalls)
    /\ IF Throws(u)
       THEN /\ exc' = "updater"
            /\ done' = Refused(u, state, stateRef)
            /\ calls' = calls
            /\ UNCHANGED <<state, stateRef, nextRef, tally>>
       ELSE LET t == Spread(state, PartialOf(u, state)) IN
            /\ state' = t
            /\ stateRef' = Literal(state, stateRef, t, nextRef)
            /\ nextRef' = nextRef + 1
            /\ tally' = TallyAfter(u)
            /\ calls' = Append(
                  [i \in 1..Len(calls) |->
                      [calls[i] EXCEPT !.nested = TRUE, !.latest = t,
                                       !.parts = Append(@, PartialOf(u, state)),
                                       !.since = {}]],
                  Frame(u, state, stateRef, t,
                        Literal(state, stateRef, t, nextRef), listeners))
            /\ exc' = "none"
            /\ done' = NoCall
    /\ UNCHANGED hookVars
    /\ UNCHANGED <<phase, leaked, listeners, handles, unsubbed>>
    /\ unsubLog' = NoUnsub
    /\ ret' = NoRet

\* The initializer calls the `set` it was passed (line 33); no listener can
\* be registered yet
InitSet(u) ==
    /\ phase = "init"
    /\ Idle
    /\ ~Throws(u)
    /\ Begin(u, 0)

\* The initializer returns v, which replaces whatever `state` held (line 33);
\* create returns the hook
InitReturn(v) ==
    /\ phase = "init"
    /\ Idle
    /\ phase' = "ready"
    /\ state' = Assigned(state, v)
    /\ stateRef' = FirstRef
    /\ nextRef' = FirstRef + 1
    /\ tally' = [base |-> Get(Assigned(state, v), "count"), incs |-> 0, decs |-> 0]
    /\ exc' = "none"
    /\ UNCHANGED hookVars
    /\ UNCHANGED <<nOps, leaked, listeners, handles, calls, unsubbed>>
    /\ done' = NoCall
    /\ unsubLog' = NoUnsub
    /\ ret' = [op |-> "create", sel |-> "none", val |-> v, ref |-> FirstRef,
               held |-> state]

\* The initializer throws (line 33): createStoreApi and create throw, no hook
\* is returned; the closures setState and getState live on if the initializer
\* stored them somewhere
InitThrow(keep) ==
    /\ phase = "init"
    /\ Idle
    /\ phase' = "failed"
    /\ leaked' = keep
    /\ exc' = "initializer"
    /\ UNCHANGED hookVars
    /\ UNCHANGED <<nOps, state, stateRef, nextRef, listeners, handles, calls, tally, unsubbed>>
    /\ done' = NoCall
    /\ unsubLog' = NoUnsub
    /\ ret' = NoRet

\* setState called from outside any notification: through an action of the
\* state, or through the handles a failed initializer kept
SetState(u) ==
    /\ phase = "ready" \/ (phase = "failed" /\ leaked)
    /\ Idle
    /\ Begin(u, 0)

\* setState called by a listener that is being notified
ListenerSetState(u) ==
    /\ InListener
    /\ Begin(u, 1)

\* listeners.forEach, line 19: the next listener of the Set is invoked
Notify ==
    /\ calls # <<>>
    /\ exc = "none"
    /\ Top.cur = 0
    /\ Top.idx < Len(listeners)
    /\ LET c == listeners[Top.idx + 1] IN
       calls' = [i \in 1..Len(calls) |->
                        IF i = Len(calls)
                        THEN [calls[i] EXCEPT !.idx = @ + 1, !.cnt[c] = @ + 1, !.cur = c,
                                              !.inv = unsubbed[c], !.since = @ \cup {c}]
                        ELSE [calls[i] EXCEPT !.since = @ \cup {c}]]
    /\ UNCHANGED hookVars
    /\ UNCHANGED <<nOps, phase, leaked, state, stateRef, nextRef, listeners, handles, exc, tally, unsubbed>>
    /\ done' = NoCall
    /\ unsubLog' = NoUnsub
    /\ ret' = NoRet

\* The running listener returns: forEach goes on
ListenerReturn ==
    /\ calls # <<>>
    /\ exc = "none"
    /\ Top.cur # 0
    /\ calls' = [calls EXCEPT ![Len(calls)].cur = 0]
    /\ UNCHANGED hookVars
    /\ UNCHANGED <<nOps, phase, leaked, state, stateRef, nextRef, listeners, handles, exc, tally, unsubbed>>
    /\ done' = NoCall
    /\ unsubLog' = NoUnsub
    /\ ret' = NoRet

\* The running listener throws: nothing in forEach or setState catches it
ListenerThrow ==
    /\ calls # <<>>
    /\ exc = "none"
    /\ Top.cur # 0
    /\ exc' = "listener"
    /\ UNCHANGED hookVars
    /\ UNCHANGED <<nOps, phase, leaked, state, stateRef, nextRef, listeners, handles, calls, tally, unsubbed>>
    /\ done' = NoCall
    /\ unsubLog' = NoUnsub
    /\ ret' = NoRet

\* An exception leaves a setState call: forEach stops where it is, and the
\* exception goes on to the caller (a listener that does not catch it passes
\* it on to the call that was notifying it)
Unwind ==
    /\ calls # <<>>
    /\ exc # "none"
    /\ done' = Ended(Top, "listenerThrew", exc, state)
    /\ calls' = SubSeq(calls, 1, Len(calls) - 1)
    /\ UNCHANGED hookVars
    /\ UNCHANGED <<nOps, phase, leaked, state, stateRef, nextRef, listeners, handles, exc, tally, unsubbed>>
    /\ unsubLog' = NoUnsub
    /\ ret' = NoRet

\* forEach has passed every entry: setState returns (line 20)
Return ==
    /\ calls # <<>>
    /\ exc = "none"
    /\ Top.cur = 0
    /\ Top.idx >= Len(listeners)
    /\ done' = Ended(Top, "returned", "none", state)
    /\ calls' = SubSeq(calls, 1, Len(calls) - 1)
    /\ UNCHANGED hookVars
    /\ UNCHANGED <<nOps, phase, leaked, state, stateRef, nextRef, listeners, handles, exc, tally, unsubbed>>
    /\ unsubLog' = NoUnsub
    /\ ret' = NoRet

\* A getState that hands out a copy, and keeps the copy as the state
GetStateCallCopying ==
    /\ phase # "failed" \/ leaked
    /\ Idle
    /\ ret' = [op |-> "getState", sel |-> "none", val |-> GetState(state),
               ref |-> nextRef, held |-> state]
    /\ stateRef' = nextRef
    /\ nextRef' = nextRef + 1
    /\ exc' = "none"
    /\ done' = NoCall
    /\ unsubLog' = NoUnsub
    /\ UNCHANGED hookVars
    /\ UNCHANGED <<nOps, phase, leaked, state, listeners, handles, calls, tally, unsubbed>>

\* getState() (line 22) returns the stored object: the initializer calls the
\* `get` it was passed (line 33), or the store is read between two calls
GetStateCall ==
    /\ phase # "failed" \/ leaked
    /\ Idle
    /\ ret' = [op |-> "getState", sel |-> "none", val |-> GetState(state),
               ref |-> stateRef, held |-> state]
    /\ exc' = "none"
    /\ done' = NoCall
    /\ unsubLog' = NoUnsub
    /\ UNCHANGED hookVars
    /\ UNCHANGED <<nOps, phase, leaked, state, stateRef, nextRef, listeners, handles,
                   calls, tally, unsubbed>>

\* getSnapshot(sel) (line 31), called between two setState calls
GetSnapshotCall(sel) ==
    /\ phase = "ready"
    /\ Idle
    /\ ret' = [op |-> "getSnapshot", sel |-> sel, val |-> GetSnapshot(sel, state),
               ref |-> stateRef, held |-> state]
    /\ exc' = "none"
    /\ done' = NoCall
    /\ unsubLog' = NoUnsub
    /\ UNCHANGED hookVars
    /\ UNCHANGED <<nOps, phase, leaked, state, stateRef, nextRef, listeners, handles,
                   calls, tally, unsubbed>>

\* Unsubscribe closures made so far
Made == LET n[S \in SUBSET Callbacks] ==
                IF S = {} THEN 0
                ELSE LET c == CHOOSE x \in S : TRUE IN handles[c].made + n[S \ {c}]
        IN n[Callbacks]

\* subscribe(c), lines 24-29, called by a listener (k = 1) or not (k = 0)
DoSubscribe(c, k) ==
    /\ nOps' = nOps + k
    /\ Made < MaxHandles
    /\ listeners' = SetAdd(listeners, c)
    /\ handles' = [handles EXCEPT ![c].made = @ + 1]
    /\ unsubbed' = [unsubbed EXCEPT ![c] = IF @ = "no" THEN "no" ELSE "again"]
    /\ exc' = "none"
    /\ done' = NoCall
    /\ unsubLog' = NoUnsub
    /\ ret' = NoRet
    /\ UNCHANGED hookVars
    /\ UNCHANGED <<phase, leaked, state, stateRef, nextRef, calls, tally>>

\* An unsubscribe function of callback c (lines 26-28) is called, by a
\* listener (k = 1) or not (k = 0): one that was never called before, or
\* (again) one that was; every forEach in progress sees the deletion
DoUnsubscribe(c, again, k) ==
    /\ nOps' = nOps + k
    /\ IF again THEN handles[c].used > 0 ELSE handles[c].used < handles[c].made
    /\ LET ls == SetDelete(listeners, c) IN
       /\ listeners' = ls
       /\ unsubLog' = [nth |-> IF again THEN 2 ELSE 1, cb |-> c,
                       before |-> listeners, after |-> ls]
       /\ calls' = [i \in 1..Len(calls) |->
                      [calls[i] EXCEPT !.idx = IdxAfterDelete(listeners, @, c),
                                       !.gone = @ \cup {c}]]
    /\ handles' = [handles EXCEPT ![c].used = IF again THEN @ ELSE @ + 1]
    /\ unsubbed' = [unsubbed EXCEPT ![c] = "called"]
    /\ exc' = "none"
    /\ done' = NoCall
    /\ ret' = NoRet
    /\ UNCHANGED hookVars
    /\ UNCHANGED <<phase, leaked, state, stateRef, nextRef, tally>>

\* subscribe called from outside any notification (the host framework
\* mounting a consumer)
Subscribe(c) ==
    /\ phase = "ready"
    /\ Idle
    /\ DoSubscribe(c, 0)

ListenerSubscribe(c) ==
    /\ InListener
    /\ DoSubscribe(c, 1)

Unsubscribe(c, again) ==
    /\ Idle
    /\ DoUnsubscribe(c, again, 0)

ListenerUnsubscribe(c, again) ==
    /\ InListener
    /\ DoUnsubscribe(c, again, 1)

Next ==
    \/ \E u \in Updates : InitSet(u)
    \/ \E v \in InitStates : InitReturn(v)
    \/ \E keep \in BOOLEAN : InitThrow(keep)
    \/ \E u \in Updates : SetState(u)
    \/ \E u \in ListenerUpdates : ListenerSetState(u)
    \/ Notify
    \/ ListenerReturn
    \/ ListenerThrow
    \/ Unwind
    \/ Return
    \/ \E c \in Callbacks : Subscribe(c)
    \/ \E c \in Callbacks : ListenerSubscribe(c)
    \/ \E c \in Callbacks, again \in BOOLEAN : Unsubscribe(c, again)
    \/ \E c \in Callbacks, again \in BOOLEAN : ListenerUnsubscribe(c, again)
    \/ GetStateCall
    \/ \E sel \in Selectors : GetSnapshotCall(sel)

Spec == Init /\ [][Next]_vars

----------------------------------------------------------------------------
\* The hook that create returns (lines 43-53), driven by the host framework:
\* useSyncExternalStore is handed storeApi.subscribe and a function that
\* calls storeApi.getSnapshot(selector). The host calls that function when it
\* renders the component and whenever it wants to know whether the snapshot
\* changed; it calls subscribe, with a callback of its own, once the component
\* is mounted, and the unsubscribe function when the component is torn down.
\* The callback reads the snapshot and schedules a re-render when it is not
\* identical to the one rendered.

\* README's useCountStore (lines 98-103): the state its initializer returns
CountState ==
    [k \in {"count", "increment", "decrement", "reset"} |->
        IF k = "count" THEN Num(0)
        ELSE IF k = "increment" THEN Fn(1)
        ELSE IF k = "decrement" THEN Fn(2)
        ELSE Fn(3)]

\* What the actions of that state pass to set: increment, decrement, reset
CountUpdates ==
    {FnUpdate("inc"), FnUpdate("dec"), ObjUpdate([k \in {"count"} |-> Num(0)])}

\* What a component passes to the hook: s => s.count, s => s.increment,
\* s => ({ count: s.count }) which creates an object, or nothing at all
HookSelectors == {"count", "increment", "derived", "none"}

\* selector(s), where n is the identity of the next object to be created
CallSelector(sel, s, n) == IF sel = "derived" THEN Derived(n) ELSE Select(sel, s)

\* The function handed to the host, () => storeApi.getSnapshot(selector)
\* (lines 49 and 31): selector(getState()); a selector that is undefined
\* cannot be called
HookSnapshot(sel, s, n) ==
    IF sel = "none" THEN TypeError ELSE CallSelector(sel, GetState(s), n)

\* Object.is on two snapshots: values here are equal exactly when they are
\* the same primitive or the same reference
Same(x, y) == x = y

\* Identities used up by evaluating sel once
Fresh(sel) == IF sel = "derived" THEN 1 ELSE 0

\* The instances whose callback is in the listener Set, in forEach order
RECURSIVE FreshAll(_)
FreshAll(ls) == IF ls = <<>> THEN 0 ELSE Fresh(inst[Head(ls)].sel) + FreshAll(Tail(ls))

\* The host's callback of instance i, invoked as the k-th listener of a pass
\* over ls once t is stored: it reads the snapshot and compares
Differs(i, k, ls, t) ==
    ~Same(HookSnapshot(inst[i].sel, t, nextSnap + FreshAll(SubSeq(ls, 1, k - 1))),
          inst[i].shown)

storeRest == <<phase, leaked, handles, calls, nOps, exc, done, tally, unsubbed, unsubLog, ret>>

\* create(initializer) has returned the hook; no component is rendered yet
HookInit ==
    /\ phase = "ready"
    /\ leaked = FALSE
    /\ state = CountState
    /\ stateRef = FirstRef
    /\ nextRef = FirstRef + 1
    /\ listeners = <<>>
    /\ handles = [c \in Callbacks |-> [made |-> 0, used |-> 0]]
    /\ calls = <<>>
    /\ nOps = 0
    /\ exc = "none"
    /\ done = NoCall
    /\ tally = [base |-> Num(0), incs |-> 0, decs |-> 0]
    /\ unsubbed = [c \in Callbacks |-> "no"]
    /\ unsubLog = NoUnsub
    /\ ret = NoRet
    /\ inst = [i \in Callbacks |-> NoInst]
    /\ nextSnap = 1
    /\ hlog = NoHook

\* A component that calls useStore(sel) is rendered for the first time and
\* mounted: the host calls the snapshot function (lines 47-51) and, if that
\* did not throw, commits the component and calls storeApi.subscribe with
\* its callback (lines 24-25)
Mount(i, sel) ==
    /\ inst[i].life = "new"
    /\ nextSnap + Fresh(sel) <= MaxSnaps + 1
    /\ LET v == HookSnapshot(sel, state, nextSnap) IN
       IF v = TypeError
       THEN /\ inst' = [inst EXCEPT ![i] = [@ EXCEPT !.sel = sel, !.life = "failed"]]
            /\ hlog' = [NoHook EXCEPT !.op = "threw", !.i = i, !.at = stateRef, !.val = v]
            /\ UNCHANGED listeners
       ELSE /\ inst' = [inst EXCEPT ![i] =
                          [sel |-> sel, status |-> "SUBSCRIBED", life |-> "mounted",
                           shown |-> v, shownAt |-> stateRef, dirty |-> FALSE]]
            /\ hlog' = [NoHook EXCEPT !.op = "mount", !.i = i, !.at = stateRef, !.val = v]
            /\ listeners' = SetAdd(listeners, i)
    /\ nextSnap' = nextSnap + Fresh(sel)
    /\ UNCHANGED <<state, stateRef, nextRef>>
    /\ UNCHANGED storeRest

\* The host calls the snapshot function of a mounted component once more,
\* as it may at any time, and schedules a re-render if what it gets is not
\* identical to what it rendered
Recheck(i) ==
    /\ inst[i].life = "mounted"
    /\ nextSnap + Fresh(inst[i].sel) <= MaxSnaps + 1
    /\ LET v == HookSnapshot(inst[i].sel, state, nextSnap) IN
       /\ inst' = [inst EXCEPT ![i].dirty = @ \/ ~Same(v, inst[i].shown)]
       /\ hlog' = [NoHook EXCEPT !.op = "recheck", !.i = i, !.at = stateRef, !.val = v,
                                  !.prevAt = inst[i].shownAt, !.prevVal = inst[i].shown]
    /\ nextSnap' = nextSnap + Fresh(inst[i].sel)
    /\ UNCHANGED <<state, stateRef, nextRef, listeners>>
    /\ UNCHANGED storeRest

\* The host renders again a component it scheduled: useStore is called, and
\* what the snapshot function returns is rendered
Rerender(i) ==
    /\ inst[i].life = "mounted"
    /\ inst[i].dirty
    /\ nextSnap + Fresh(inst[i].sel) <= MaxSnaps + 1
    /\ LET v == HookSnapshot(inst[i].sel, state, nextSnap) IN
       /\ inst' = [inst EXCEPT ![i] = [@ EXCEPT !.shown = v, !.shownAt = stateRef,
                                                !.dirty = FALSE]]
       /\ hlog' = [NoHook EXCEPT !.op = "render", !.i = i, !.at = stateRef, !.val = v]
    /\ nextSnap' = nextSnap + Fresh(inst[i].sel)
    /\ UNCHANGED <<state, stateRef, nextRef, listeners>>
    /\ UNCHANGED storeRest

\* The component is torn down: the host calls the unsubscribe function that
\* subscribe returned (lines 26-28)
Unmount(i) ==
    /\ inst[i].life = "mounted"
    /\ inst' = [inst EXCEPT ![i] = [@ EXCEPT !.status = "UNSUBSCRIBED", !.life = "gone",
                                             !.dirty = FALSE]]
    /\ listeners' = SetDelete(listeners, i)
    /\ hlog' = [NoHook EXCEPT !.op = "unmount", !.i = i]
    /\ UNCHANGED <<state, stateRef, nextRef, nextSnap>>
    /\ UNCHANGED storeRest

\* An action of the state calls set(u) (lines 13-20): the merge is stored,
\* then forEach invokes the host's callback of every subscribed instance
HookSetState(u) ==
    /\ nextRef <= FirstRef + MaxCalls
    /\ nextSnap + FreshAll(listeners) <= MaxSnaps + 1
    /\ LET t == Spread(state, PartialOf(u, state))
           hit == {i \in Range(listeners) :
                     \E k \in 1..Len(listeners) :
                        listeners[k] = i /\ Differs(i, k, listeners, t)}
       IN
       /\ state' = t
       /\ stateRef' = Literal(state, stateRef, t, nextRef)
       /\ inst' = [i \in Callbacks |->
                     IF i \in hit THEN [inst[i] EXCEPT !.dirty = TRUE] ELSE inst[i]]
       /\ hlog' = [NoHook EXCEPT !.op = "setState", !.pre = state, !.post = t,
                                  !.notified = listeners,
                                  !.sched = {i \in hit : ~inst[i].dirty}]
    /\ nextRef' = nextRef + 1
    /\ nextSnap' = nextSnap + FreshAll(listeners)
    /\ UNCHANGED listeners
    /\ UNCHANGED storeRest

HookNext ==
    \/ \E i \in Callbacks, sel \in HookSelectors : Mount(i, sel)
    \/ \E i \in Callbacks : Recheck(i)
    \/ \E i \in Callbacks : Rerender(i)
    \/ \E i \in Callbacks : Unmount(i)
    \/ \E u \in CountUpdates : HookSetState(u)

HookSpec == HookInit /\ [][HookNext]_vars

----------------------------------------------------------------------------
\* What the claims speak of

Frames == {calls[i] : i \in 1..Len(calls)}

\* t holds exactly the keys of s and p, p's value for each key of p, and for
\* every other key the value s stored
MergeOf(s, p, t) ==
    /\ DOMAIN t = DOMAIN s \cup DOMAIN p
    /\ \A k \in DOMAIN p : t[k] = p[k]
    /\ \A k \in DOMAIN s \ DOMAIN p : t[k] = s[k]

\* C1. Shallow merge: setState(P) with a non-callable P commits a state that
\* holds exactly the keys of S and P, maps every key of P to P's value (a
\* nested object replaces the old field whole) and every other key of S to the
\* value S stored; getState() returns that state during the call and when it
\* returns (as long as no other setState call was made in between).
C1_ShallowMerge ==
    /\ \A f \in Frames : f.upd.kind = "obj" =>
          /\ MergeOf(f.pre, f.upd.partial, f.post)
          /\ ~f.nested => MergeOf(f.pre, f.upd.partial, GetState(state))
    /\ (done.outcome = "returned" /\ done.upd.kind = "obj") =>
          /\ MergeOf(done.pre, done.upd.partial, done.post)
          /\ ~done.nested => MergeOf(done.pre, done.upd.partial, done.atEnd)

\* A set({a: {x:1}}) on a state whose a was {x:1, y:2} has returned, after
\* notifying a listener: a is the new object, which has no y
C1_Witness ==
    /\ done.outcome = "returned"
    /\ done.upd = ObjUpdate([k \in {"a"} |-> Obj(2)])
    /\ Get(done.pre, "a") = Obj(1)
    /\ Get(done.atEnd, "a") = Obj(2)
    /\ "y" \notin DOMAIN Heap(Get(done.atEnd, "a").v)
    /\ Get(done.atEnd, "count") = Get(done.pre, "count")
    /\ \E c \in Callbacks : done.cnt[c] = 1

\* C2. Functional update: an updater is evaluated against the state current at
\* the call and its result is merged: an increment commits count + 1, a
\* decrement count - 1, and after k increments and j decrements since count was
\* last written as c, count is c + k - j (0 right after a reset).
C2_FunctionalUpdate ==
    /\ tally.base.t = "num" =>
          Get(GetState(state), "count") = Num(tally.base.v + tally.incs - tally.decs)
    /\ \A f \in Frames :
          /\ f.upd = FnUpdate("inc") =>
                Get(f.post, "count") = Add(Get(f.pre, "count"), 1)
          /\ f.upd = FnUpdate("dec") =>
                Get(f.post, "count") = Add(Get(f.pre, "count"), -1)

\* An increment and a decrement have both been applied and have returned
C2_Witness ==
    /\ Idle
    /\ phase = "ready"
    /\ tally.base = Num(0)
    /\ tally.incs = 1
    /\ tally.decs = 1
    /\ Get(state, "count") = Num(0)

C4_NeverInvokedAgain ==
    \A f \in Frames : f.cur # 0 => f.inv = "no"

\* C4 as amended. A listener of which an unsubscribe function has been called
\* is not invoked by any later setState call, unless it has been subscribed
\* again since.
C4_NotInvokedUnlessResubscribed ==
    \A f \in Frames : f.cur # 0 => f.inv # "called"

\* A setState call has returned that notified one listener and left out the
\* one that had been unsubscribed
C4_Witness ==
    /\ done.outcome = "returned"
    /\ \E c \in Callbacks :
          /\ unsubbed[c] = "called"
          /\ done.cnt[c] = 0
          /\ \E d \in Callbacks \ {c} : done.cnt[d] = 1

\* C5 as stated. No staleness: while a listener invoked by a setState call
\* runs, getState() is the state that call committed; so it is right after the
\* call returns; and the state is replaced before the first listener runs.
C5_ReadsOwnCommit ==
    /\ calls # <<>> =>
          /\ Top.cur # 0 => GetState(state) = Top.post
          /\ (Top.cur = 0 /\ Top.cnt = NoCounts) => GetState(state) = Top.post
    /\ done.outcome = "returned" => done.atEnd = done.post

\* C5 as amended. While a listener invoked by a setState call runs, getState()
\* is the state that call committed or, once a listener of that pass has called
\* setState, the state the latest such call committed (never an older one); so
\* it is right after the call returns; and the state is replaced before the
\* first listener runs.
C5_ReadsLatestCommit ==
    /\ calls # <<>> =>
          /\ Top.cur # 0 =>
                GetState(state) = (IF Top.nested THEN Top.latest ELSE Top.post)
          /\ (Top.cur = 0 /\ Top.cnt = NoCounts) => GetState(state) = Top.post
    /\ done.outcome = "returned" =>
          done.atEnd = (IF done.nested THEN done.latest ELSE done.post)

\* The second listener of a pass runs after the first one called setState: it
\* reads the nested call's state, which is not the one its own call committed
C5_Witness ==
    /\ Len(calls) = 1
    /\ calls[1].cur # 0
    /\ calls[1].nested
    /\ calls[1].idx = 2
    /\ calls[1].post # calls[1].pre
    /\ state # calls[1].post
    /\ state = calls[1].latest

\* C6. Idempotent unsubscribe: a second or later call of an unsubscribe
\* function leaves the listener set as it was.
C6_SecondCallIsNoOp ==
    unsubLog.nth >= 2 => unsubLog.after = unsubLog.before

\* C7. Update failure: a setState call whose updater throws leaves the stored
\* state (the very object) as it was, invokes no listener, and ends with the
\* updater's error at its caller; it never reaches the notification.
C7_UpdateFailure ==
    /\ \A f \in Frames : f.upd # FnUpdate("boom")
    /\ (done.outcome # "none" /\ done.upd = FnUpdate("boom")) =>
          /\ done.outcome = "updaterThrew"
          /\ ~done.committed
          /\ GetState(state) = done.pre
          /\ stateRef = done.preRef
          /\ done.cnt = NoCounts
          /\ done.err = "updater"
          /\ exc = "updater"

\* An updater has thrown in a store with two listeners and a state that
\* earlier calls had changed
C7_Witness ==
    /\ done.outcome = "updaterThrew"
    /\ Len(listeners) = 2
    /\ stateRef > FirstRef
    /\ exc = "updater"

\* C8. Initializer failure: once the initializer has thrown, create has thrown
\* that error and nothing of the half-built store operates: no setState call
\* runs on it and none has ended on it.
C8_NothingOperable ==
    phase = "failed" => Idle /\ done = NoCall /\ exc = "initializer"

\* C9. All or nothing: a setState call that ended either stored the merge and
\* notified every registered listener, or left the state as it was and
\* notified nobody.
C9_AllOrNothing ==
    done.outcome # "none" =>
        \/ done.committed /\ \A c \in done.regEnd : done.cnt[c] >= 1
        \/ ~done.committed /\ done.atEnd = done.pre /\ done.cnt = NoCounts

\* The same, for the calls that no listener's exception cut short
C9_AllOrNothingUnlessListenerThrows ==
    (done.outcome # "none" /\ done.outcome # "listenerThrew") =>
        \/ done.committed /\ \A c \in done.regEnd : done.cnt[c] >= 1
        \/ ~done.committed /\ done.atEnd = done.pre /\ done.cnt = NoCounts

\* C10. Selector isolation: set({a: v}) makes the snapshot of s => s.a equal
\* to v and leaves the snapshot of s => s.b what it was before the call, in the
\* state the call commits and in the state getState() returns during the call
\* and when it returns (as long as no other setState call was made in between).
C10_SelectorIsolation ==
    /\ \A f \in Frames : (f.upd.kind = "obj" /\ DOMAIN f.upd.partial = {"a"}) =>
          /\ GetSnapshot("a", f.post) = f.upd.partial["a"]
          /\ GetSnapshot("b", f.post) = GetSnapshot("b", f.pre)
          /\ ~f.nested =>
                /\ GetSnapshot("a", state) = f.upd.partial["a"]
                /\ GetSnapshot("b", state) = GetSnapshot("b", f.pre)
    /\ (done.outcome = "returned" /\ done.upd.kind = "obj"
            /\ DOMAIN done.upd.partial = {"a"} /\ ~done.nested) =>
          /\ GetSnapshot("a", done.atEnd) = done.upd.partial["a"]
          /\ GetSnapshot("b", done.atEnd) = GetSnapshot("b", done.pre)

\* set({a: ...}) has returned in a store whose b was 2, after notifying two
\* listeners: the snapshot of a is the new value, that of b is still 2
C10_Witness ==
    /\ done.outcome = "returned"
    /\ done.upd = ObjUpdate([k \in {"a"} |-> Obj(2)])
    /\ GetSnapshot("a", done.pre) = Num(1)
    /\ GetSnapshot("a", done.atEnd) = Obj(2)
    /\ GetSnapshot("b", done.atEnd) = Num(2)
    /\ \A c \in Callbacks : done.cnt[c] = 1

\* C11. Snapshot stability: two calls of the snapshot function handed to the
\* host, between which no setState call has committed, return identical
\* values, whatever the selector.
C11_SnapshotStability ==
    (hlog.op = "recheck" /\ hlog.at = hlog.prevAt) => Same(hlog.val, hlog.prevVal)

\* The same, for the selectors that return something the state holds
C11_StableUnlessSelectorCreates ==
    (hlog.op = "recheck" /\ hlog.at = hlog.prevAt /\ inst[hlog.i].sel # "derived") =>
        Same(hlog.val, hlog.prevVal)

\* The whole state as a snapshot: the stored object of identity r
WholeState(r) == [t |-> "state", v |-> r]

\* C12. Optional selector: a call of the hook never fails; with a selector it
\* yields selector(getState()), and with none it yields the whole state.
C12_OptionalSelector ==
    hlog.op \in {"mount", "render", "recheck", "threw"} =>
        /\ hlog.op # "threw"
        /\ hlog.val # TypeError
        /\ inst[hlog.i].sel \in {"count", "increment"} =>
              hlog.val = Select(inst[hlog.i].sel, GetState(state))
        /\ inst[hlog.i].sel = "none" => hlog.val = WholeState(stateRef)

\* The selected value is not the same in t as in s; an object that the
\* selector creates is never the same twice
Changed(sel, s, t) ==
    IF sel = "derived" THEN TRUE ELSE ~Same(Select(sel, s), Select(sel, t))

\* C13. Selective subscriptions: a setState call (an increment, a decrement
\* or a reset) makes the host schedule a re-render of a subscribed consumer
\* only if the value it selects is not identical before and after the call;
\* a consumer of s => s.increment is never scheduled, and one of s => s.count
\* is scheduled only by a call that changes count.
C13_SelectiveSubscriptions ==
    /\ hlog.op = "setState" =>
          \A i \in hlog.sched :
             /\ Changed(inst[i].sel, hlog.pre, hlog.post)
             /\ inst[i].sel = "count" =>
                   Get(hlog.pre, "count") # Get(hlog.post, "count")
             /\ inst[i].sel # "increment"
    /\ \A i \in Callbacks : (inst[i].sel = "increment" /\ inst[i].life = "mounted") =>
          /\ ~inst[i].dirty
          /\ inst[i].shown = Fn(1)
    /\ hlog.op = "render" => inst[hlog.i].sel # "increment"

\* An increment has notified a consumer of count and a consumer of
\* increment: the first is scheduled for a re-render, the second is not
C13_Witness ==
    /\ hlog.op = "setState"
    /\ Get(hlog.post, "count") = Num(1)
    /\ Range(hlog.notified) = Callbacks
    /\ \E i, j \in Callbacks :
          /\ inst[i].sel = "count"
          /\ inst[j].sel = "increment"
          /\ hlog.sched = {i}
          /\ inst[i].dirty
          /\ ~inst[j].dirty

\* What a call writes is in the state already: an empty partial, or one whose
\* every field the state holds with the same value
NoChange(f) ==
    /\ f.upd.kind = "obj"
    /\ \A k \in DOMAIN f.upd.partial :
          k \in DOMAIN f.pre /\ f.pre[k] = f.upd.partial[k]

\* C14. Always notify: a setState call whose partial is empty or equal field
\* by field to the current state still stores a new object (equal to the old
\* one, with an identity the old one does not have) before any listener runs,
\* and, when it returns, has invoked exactly once every listener that was
\* registered at the call and was not unsubscribed during the pass.
C14_AlwaysNotify ==
    /\ \A f \in Frames : NoChange(f) =>
          /\ f.post = f.pre
          /\ f.postRef # f.preRef
          /\ ~f.nested => stateRef = f.postRef
    /\ (done.outcome = "returned" /\ NoChange(done)) =>
          /\ done.postRef # done.preRef
          /\ \A c \in done.reg \ done.gone : done.cnt[c] = 1

\* set({count: 0}) on a state whose count was 0 already has returned: the
\* state is a new object with the same fields, and both listeners ran once
C14_Witness ==
    /\ done.outcome = "returned"
    /\ done.upd = ObjUpdate([k \in {"count"} |-> Num(0)])
    /\ Get(done.pre, "count") = Num(0)
    /\ done.atEnd = done.pre
    /\ stateRef = done.postRef
    /\ done.postRef # done.preRef
    /\ done.reg = Callbacks
    /\ \A c \in Callbacks : done.cnt[c] = 1

\* C15. Unsubscribe during notification: an unsubscribe function called by a
\* listener that is being notified raises nothing and lets the pass go on,
\* the listener it removes is out of the listener set when it returns, and
\* every listener that stays registered throughout the pass is invoked by
\* that call exactly once: never twice, and once when the call returns.
C15_UnsubscribeDuringPass ==
    /\ (unsubLog.nth # 0 /\ calls # <<>>) =>
          /\ exc = "none"
          /\ Top.cur # 0
          /\ unsubLog.cb \notin Range(listeners)
    /\ \A f \in Frames : f.gone # {} =>
          \A c \in f.reg \ f.gone : f.cnt[c] <= 1
    /\ (done.outcome = "returned" /\ done.gone # {}) =>
          \A c \in done.reg \ done.gone : done.cnt[c] = 1

\* The first of two listeners unsubscribed itself while it was notified; the
\* call went on to the second and has returned
C15_Witness ==
    /\ done.outcome = "returned"
    /\ done.reg = Callbacks
    /\ \E c \in Callbacks :
          /\ done.gone = {c}
          /\ done.cnt[c] = 1
          /\ done.regEnd = Callbacks \ {c}
          /\ \A d \in Callbacks \ {c} : done.cnt[d] = 1

\* C16. Hook lifecycle: an instance goes from UNSUBSCRIBED to SUBSCRIBED when
\* it is mounted and back when it is unmounted, and makes no other move; the
\* listener set is at all times the set of callbacks of the SUBSCRIBED
\* instances; a setState call invokes the callback of every SUBSCRIBED
\* instance once, whatever it selects, and of no other instance.
C16_HookLifecycle ==
    /\ [](/\ Range(listeners) = {i \in Callbacks : inst[i].status = "SUBSCRIBED"}
          /\ \A i \in Callbacks : inst[i].status = "SUBSCRIBED" <=> inst[i].life = "mounted"
          /\ hlog.op = "setState" =>
                \A i \in Callbacks :
                   Cardinality({k \in 1..Len(hlog.notified) : hlog.notified[k] = i})
                      = (IF inst[i].status = "SUBSCRIBED" THEN 1 ELSE 0))
    /\ [][\A i \in Callbacks : inst'[i].status # inst[i].status =>
             \/ /\ inst[i].status = "UNSUBSCRIBED"
                /\ inst[i].life = "new"
                /\ inst'[i].life = "mounted"
             \/ /\ inst[i].status = "SUBSCRIBED"
                /\ inst'[i].life = "gone"]_vars

\* A reset that changes nothing has invoked the callback of the instance
\* that is mounted, and not that of the instance that was unmounted
C16_Witness ==
    /\ hlog.op = "setState"
    /\ hlog.pre = hlog.post
    /\ \E i, j \in Callbacks :
          /\ inst[i].status = "SUBSCRIBED"
          /\ inst[j].life = "gone"
          /\ hlog.notified = <<i>>
          /\ hlog.sched = {}

\* C17. Identity-based membership: the listener set never holds a callback
\* twice; a callback that was subscribed more than once has one registration,
\* and a setState call that returns has invoked it exactly once (if it was
\* registered at the call and not unsubscribed during the pass).
C17_IdentityMembership ==
    /\ \A i, j \in 1..Len(listeners) : listeners[i] = listeners[j] => i = j
    /\ \A c \in Callbacks : handles[c].made >= 2 =>
          /\ Cardinality({i \in 1..Len(listeners) : listeners[i] = c}) <= 1
          /\ \A f \in Frames : c \in f.reg \ f.gone => f.cnt[c] <= 1
          /\ (done.outcome = "returned" /\ c \in done.reg \ done.gone) =>
                done.cnt[c] = 1

\* A callback was subscribed twice and never unsubscribed; a setState call
\* has returned that invoked it once
C17_Witness ==
    /\ done.outcome = "returned"
    /\ \E c \in Callbacks :
          /\ handles[c].made = 2
          /\ handles[c].used = 0
          /\ listeners = <<c>>
          /\ done.cnt[c] = 1

\* C18. Mutation only through setState, once the store is built: a getState
\* or getSnapshot step leaves the stored state (value and identity) and the
\* listener set as they were, a subscribe or unsubscribe step leaves the
\* stored state as it was, the merge of a setState step leaves the listener
\* set as it was; the stored state changes only in a step that begins a
\* setState call, the listener set only in a subscribe or unsubscribe step.
C18_MutationOnlyThroughSetState ==
    [][/\ ret'.op \in {"getState", "getSnapshot"} =>
             /\ state' = state
             /\ stateRef' = stateRef
             /\ listeners' = listeners
       /\ (Made' # Made \/ unsubLog'.nth # 0) =>
             /\ state' = state
             /\ stateRef' = stateRef
       /\ Len(calls') > Len(calls) => listeners' = listeners
       /\ (phase # "init" /\ (state' # state \/ stateRef' # stateRef)) =>
             /\ Len(calls') = Len(calls) + 1
             /\ calls'[Len(calls')].preRef = stateRef
       /\ listeners' # listeners =>
             \/ Made' = Made + 1
             \/ unsubLog'.nth # 0
      ]_vars

\* getSnapshot has just returned in a store with two listeners whose state
\* setState has replaced: the state is the object the last call committed
C18_Witness ==
    /\ ret.op = "getSnapshot"
    /\ Len(listeners) = 2
    /\ stateRef > FirstRef
    /\ ret.ref = stateRef
    /\ ret.held = state

\* C19. Initial state: the initializer runs once (construction is never
\* entered again); while it runs, get returns the empty placeholder with the
\* merges of the set calls made so far; when create returns, getState() is
\* the value the initializer returned, whatever those merges had stored.
C19_InitialStateIsReturnValue ==
    /\ [](/\ (phase = "init" /\ stateRef = 0) => GetState(state) = EmptyObj
          /\ phase = "init" => \A f \in Frames :
                /\ f.preRef = 0 => f.pre = EmptyObj
                /\ MergeOf(f.pre, PartialOf(f.upd, f.pre), GetState(state))
          /\ (phase = "init" /\ ret.op = "getState") =>
                /\ ret.val = state
                /\ ret.ref = stateRef
                /\ stateRef = 0 => ret.val = EmptyObj
          /\ ret.op = "create" =>
                /\ phase = "ready"
                /\ GetState(state) = ret.val
                /\ stateRef = FirstRef)
    /\ [][phase' = "init" => phase = "init"]_vars

\* create has returned after the initializer called set({b: 7}) and returned
\* a value without b: the state is that value, and has no b
C19_Witness ==
    /\ ret.op = "create"
    /\ ret.held = [k \in {"b"} |-> Num(7)]
    /\ state = ret.val
    /\ "b" \notin DOMAIN state
    /\ phase = "ready"

\* The merges ps applied to s one after the other
RECURSIVE MergeAll(_, _)
MergeAll(s, ps) ==
    IF ps = <<>> THEN s ELSE MergeAll(Spread(s, Head(ps)), Tail(ps))

\* C20. Re-entrant setState: while a call made by a listener is in progress
\* the pass that invoked that listener stands still; the nested call, when it
\* returns, has notified every listener that was registered at its start and
\* stayed so, and the outer pass has not resumed; when the outermost call
\* returns, the stored state is the state it started from with every update
\* merged in the order the calls began, and every listener then registered
\* has been invoked since the last commit.
C20_ReentrantSetState ==
    /\ \A i \in 1..(Len(calls) - 1) :
          /\ calls[i].cur # 0
          /\ calls[i].nested
          /\ calls[i + 1].preRef >= calls[i].postRef
    /\ (done.outcome = "returned" /\ calls # <<>>) =>
          /\ \A c \in done.reg \ done.gone : done.cnt[c] = 1
          /\ Top.cur # 0
          /\ Top.nested
    /\ (done.outcome = "returned" /\ Idle /\ done.nested) =>
          /\ done.atEnd = MergeAll(done.pre, done.parts)
          /\ GetState(state) = done.atEnd
          /\ Range(listeners) \subseteq done.since

\* A call whose first listener called setState has returned: two updates
\* are merged, and both listeners were invoked after the second commit
C20_Witness ==
    /\ done.outcome = "returned"
    /\ Idle
    /\ done.nested
    /\ Len(done.parts) = 2
    /\ done.atEnd # done.post
    /\ Range(listeners) = Callbacks
    /\ done.since = Callbacks
    /\ \A c \in Callbacks : done.cnt[c] = 1

====
